---- MODULE Spec2Model ----
(***************************************************************************)
(* A model of jsonpatch2: JSON Pointers (RFC 6901), JSON Patch operations  *)
(* (RFC 6902), the patch engine and the patch generator.                   *)
(*                                                                         *)
(* Go maps and slices are references.  The model keeps them in a heap:     *)
(*   heap.maps[id]  the members of map id (a function from key to value),  *)
(*   heap.arrs[id]  the backing array id (a sequence, one slot per unit of *)
(*                  capacity),                                             *)
(* and a value is a scalar, a map reference [m |-> id] or a slice header   *)
(* [a |-> id, len |-> n] (every slice the library stores starts at slot 1  *)
(* of its backing array).  Decoded JSON text and expected results are      *)
(* trees: scalars, [o |-> members] and [e |-> elements].                   *)
(***************************************************************************)
EXTENDS Integers, Sequences, FiniteSets, TLC

VARIABLES
    heap,      \* the Go heap: maps and backing arrays
    base,      \* Patch.apply's argument base (a heap value)
    patch,     \* the Patch being applied: a sequence of Operations
    result,    \* Patch.apply's working document `result`
    err,       \* the error of the last operation ("" is nil)
    loc,       \* the index Patch.apply returns
    idx,       \* the loop index i of Patch.apply
    pc,        \* where the program is
    ret,       \* what the exported call returned
    input,     \* the texts the run was started with
    hist       \* history: what the run observed, for stating the properties

vars == <<heap, base, patch, result, err, loc, idx, pc, ret, input, hist>>

(***************************************************************************)
(* Bounds of the model.                                                    *)
(***************************************************************************)
\* the longest patch that is applied
MaxPatchLen == 2
\* how deep a document is unfolded when it is compared (cycles are cut here)
MaxDepth == 6

(***************************************************************************)
(* JSON values.                                                            *)
(***************************************************************************)
Nil == [nil |-> TRUE]
Num(n) == [n |-> n]
Str(s) == [s |-> s]
Bool(b) == [b |-> b]
Obj(f) == [o |-> f]
Arr(s) == [e |-> s]
EmptyObj == [o |-> <<>>]
Cut == [cut |-> TRUE]

IsMap(v) == "m" \in DOMAIN v
IsSlice(v) == "a" \in DOMAIN v
IsObj(t) == "o" \in DOMAIN t
IsArr(t) == "e" \in DOMAIN t
IsNil(v) == "nil" \in DOMAIN v

EmptyHeap == [maps |-> <<>>, arrs |-> <<>>]

\* B(v): names the value v inside B
With(v, B(_)) == B(v)

\* an arbitrary but fixed enumeration of a finite set
RECURSIVE SetToSeq(_)
SetToSeq(S) ==
    IF S = {} THEN <<>>
    ELSE With(CHOOSE y \in S : TRUE, LAMBDA x : <<x>> \o SetToSeq(S \ {x}))

\* n copies of nil: the unused part of a freshly made backing array
RECURSIVE Nils(_)
Nils(n) == IF n <= 0 THEN <<>> ELSE <<Nil>> \o Nils(n - 1)

\* The capacity Go's runtime gives a slice of 16-byte elements (strings,
\* interfaces) that `append` has to grow: 0 -> 1, then doubled.
GrowCap(c) == IF c = 0 THEN 1 ELSE 2 * c

\* The capacity of a slice built from empty by n single appends.
RECURSIVE CapAfterAppends(_, _)
CapAfterAppends(n, c) ==
    IF n <= c THEN c ELSE CapAfterAppends(n, GrowCap(c))

NewMap(h, f) ==
    [h |-> [h EXCEPT !.maps = Append(@, f)], v |-> [m |-> Len(h.maps) + 1]]

\* a new backing array of capacity cap holding elems
NewSlice(h, elems, cap) ==
    [h |-> [h EXCEPT !.arrs = Append(@, elems \o Nils(cap - Len(elems)))],
     v |-> [a |-> Len(h.arrs) + 1, len |-> Len(elems)]]

\* the elements of a slice
Elems(h, v) == SubSeq(h.arrs[v.a], 1, v.len)

\* json.Unmarshal into interface{}: every object a new map, every array a new
\* slice grown by append, one element at a time.
RECURSIVE Unmarshal(_, _), UnmarshalMembers(_, _, _, _), UnmarshalElems(_, _, _, _)
Unmarshal(h, t) ==
    IF IsObj(t) THEN
        With(UnmarshalMembers(h, t.o, SetToSeq(DOMAIN t.o), <<>>),
             LAMBDA r : NewMap(r.h, r.f))
    ELSE IF IsArr(t) THEN
        With(UnmarshalElems(h, t.e, 1, <<>>),
             LAMBDA r : NewSlice(r.h, r.s, CapAfterAppends(Len(t.e), 0)))
    ELSE [h |-> h, v |-> t]
UnmarshalMembers(h, f, keys, acc) ==
    IF keys = <<>> THEN [h |-> h, f |-> acc]
    ELSE With(Unmarshal(h, f[Head(keys)]), LAMBDA r :
              UnmarshalMembers(r.h, f, Tail(keys), (Head(keys) :> r.v) @@ acc))
UnmarshalElems(h, s, i, acc) ==
    IF i > Len(s) THEN [h |-> h, s |-> acc]
    ELSE With(Unmarshal(h, s[i]), LAMBDA r :
              UnmarshalElems(r.h, s, i + 1, Append(acc, r.v)))

\* The document a heap value stands for, unfolded to depth d.
RECURSIVE View(_, _, _)
View(h, v, d) ==
    IF IsMap(v) THEN
        IF d = 0 THEN Cut
        ELSE Obj([k \in DOMAIN h.maps[v.m] |-> View(h, h.maps[v.m][k], d - 1)])
    ELSE IF IsSlice(v) THEN
        IF d = 0 THEN Cut
        ELSE Arr([i \in 1..v.len |-> View(h, h.arrs[v.a][i], d - 1)])
    ELSE v

Doc(h, v) == View(h, v, MaxDepth)

\* reflect.DeepEqual on decoded JSON: same variant, same scalar, same length
\* and elements, same keys and members.
DeepEqual(h, v, w) == Doc(h, v) = Doc(h, w)

\* The containers a value reaches: map ids and backing-array ids.
RECURSIVE Reach(_, _, _)
Reach(h, v, d) ==
    IF d = 0 THEN {}
    ELSE IF IsMap(v) THEN
        {<<"m", v.m>>} \cup
        UNION {Reach(h, h.maps[v.m][k], d - 1) : k \in DOMAIN h.maps[v.m]}
    ELSE IF IsSlice(v) THEN
        {<<"a", v.a>>} \cup
        UNION {Reach(h, h.arrs[v.a][i], d - 1) : i \in 1..v.len}
    ELSE {}

Containers(h, v) == Reach(h, v, MaxDepth)

\* utils.Clone: a deep copy; new maps, new slices of exactly the length.
RECURSIVE Clone(_, _), CloneMembers(_, _, _, _), CloneElems(_, _, _, _)
Clone(h, v) ==
    IF IsMap(v) THEN
        With(CloneMembers(h, h.maps[v.m], SetToSeq(DOMAIN h.maps[v.m]), <<>>),
             LAMBDA r : NewMap(r.h, r.f))
    ELSE IF IsSlice(v) THEN
        With(CloneElems(h, Elems(h, v), 1, <<>>),
             LAMBDA r : NewSlice(r.h, r.s, v.len))
    ELSE [h |-> h, v |-> v]
CloneMembers(h, f, keys, acc) ==
    IF keys = <<>> THEN [h |-> h, f |-> acc]
    ELSE With(Clone(h, f[Head(keys)]), LAMBDA r :
              CloneMembers(r.h, f, Tail(keys), (Head(keys) :> r.v) @@ acc))
CloneElems(h, s, i, acc) ==
    IF i > Len(s) THEN [h |-> h, s |-> acc]
    ELSE With(Clone(h, s[i]), LAMBDA r :
              CloneElems(r.h, s, i + 1, Append(acc, r.v)))

(***************************************************************************)
(* Strings.                                                                *)
(***************************************************************************)
Ch(s, i) == SubSeq(s, i, i)
HasPrefix(s, p) == Len(s) >= Len(p) /\ SubSeq(s, 1, Len(p)) = p

\* strings.Split(s, sep) for a one-character sep
RECURSIVE SplitFrom(_, _, _, _)
SplitFrom(s, sep, i, cur) ==
    IF i > Len(s) THEN <<cur>>
    ELSE IF Ch(s, i) = sep THEN <<cur>> \o SplitFrom(s, sep, i + 1, "")
    ELSE SplitFrom(s, sep, i + 1, cur \o Ch(s, i))
Split(s, sep) == SplitFrom(s, sep, 1, "")

\* strings.Join(frags, sep)
RECURSIVE Join(_, _)
Join(frags, sep) ==
    IF frags = <<>> THEN ""
    ELSE IF Len(frags) = 1 THEN frags[1]
    ELSE frags[1] \o sep \o Join(Tail(frags), sep)

\* decode = strings.NewReplacer("~1", "/", "~0", "~"): one pass, left to right
RECURSIVE DecodeFrom(_, _)
DecodeFrom(s, i) ==
    IF i > Len(s) THEN ""
    ELSE IF i < Len(s) /\ SubSeq(s, i, i + 1) = "~1" THEN "/" \o DecodeFrom(s, i + 2)
    ELSE IF i < Len(s) /\ SubSeq(s, i, i + 1) = "~0" THEN "~" \o DecodeFrom(s, i + 2)
    ELSE Ch(s, i) \o DecodeFrom(s, i + 1)
decode(s) == DecodeFrom(s, 1)

\* encode = strings.NewReplacer("~", "~0", "/", "~1"): one pass, left to right
RECURSIVE EncodeFrom(_, _)
EncodeFrom(s, i) ==
    IF i > Len(s) THEN ""
    ELSE IF Ch(s, i) = "~" THEN "~0" \o EncodeFrom(s, i + 1)
    ELSE IF Ch(s, i) = "/" THEN "~1" \o EncodeFrom(s, i + 1)
    ELSE Ch(s, i) \o EncodeFrom(s, i + 1)
encode(s) == EncodeFrom(s, 1)

Digit(c) ==
    CASE c = "0" -> 0 [] c = "1" -> 1 [] c = "2" -> 2 [] c = "3" -> 3
      [] c = "4" -> 4 [] c = "5" -> 5 [] c = "6" -> 6 [] c = "7" -> 7
      [] c = "8" -> 8 [] c = "9" -> 9 [] OTHER -> -1

RECURSIVE Digits(_, _, _)
Digits(s, i, acc) ==
    IF i > Len(s) THEN [ok |-> TRUE, n |-> acc]
    ELSE IF Digit(Ch(s, i)) < 0 THEN [ok |-> FALSE, n |-> 0]
    ELSE Digits(s, i + 1, 10 * acc + Digit(Ch(s, i)))

\* strconv.Atoi: an optional sign and at least one decimal digit
Signed(s) == Len(s) > 0 /\ Ch(s, 1) \in {"-", "+"}
Atoi(s) ==
    With(IF Signed(s) THEN SubSeq(s, 2, Len(s)) ELSE s, LAMBDA body :
    With(Digits(body, 1, 0), LAMBDA r :
        IF body = "" \/ ~r.ok THEN [ok |-> FALSE, n |-> 0]
        ELSE [ok |-> TRUE,
              n |-> IF Signed(s) /\ Ch(s, 1) = "-" THEN 0 - r.n ELSE r.n]))

(***************************************************************************)
(* Pointers.  A Pointer is a sequence of decoded segments.                 *)
(***************************************************************************)
\* a segment printed as it is, with nothing escaped
SegmentStringPlain(seg) == seg

\* pointerSegment.String
SegmentString(seg) == encode(seg)

\* newSegment: every ~ must be followed by 0 or 1
newSegment(s) ==
    With(Split(s, "~"), LAMBDA c :
        IF \E i \in 2..Len(c) : ~(HasPrefix(c[i], "0") \/ HasPrefix(c[i], "1"))
        THEN [ok |-> FALSE, seg |-> ""]
        ELSE [ok |-> TRUE, seg |-> decode(s)])

\* NewPointer
NewPointer(s) ==
    With(Tail(Split(s, "/")), LAMBDA frags :
        IF s = "" THEN [ok |-> TRUE, p |-> <<>>]
        ELSE IF ~HasPrefix(s, "/") THEN [ok |-> FALSE, p |-> <<>>]
        ELSE IF \E i \in 1..Len(frags) : ~newSegment(frags[i]).ok
             THEN [ok |-> FALSE, p |-> <<>>]
        ELSE [ok |-> TRUE,
              p |-> [i \in 1..Len(frags) |-> newSegment(frags[i]).seg]])

\* Pointer.String
PointerString(p) ==
    Join(<<"">> \o [i \in 1..Len(p) |-> SegmentString(p[i])], "/")

\* Pointer.Contains
Contains(a, b) == Len(b) >= Len(a) /\ a = SubSeq(b, 1, Len(a))

\* Pointer.Chop: the pointer without its last segment
ChopRest(p) == SubSeq(p, 1, Len(p) - 1)
ChopLast(p) == IF Len(p) = 0 THEN "" ELSE p[Len(p)]

ErrAtoi == "NotANumber"
ErrBounds == "IndexOutOfBounds"
ErrNotFound == "PathNotFound"
ErrNotIndexable == "NotIndexable"
ErrTest == "TestMismatch"
ErrCannotHappen == "CannotHappen"
ErrInvalidOp == "InvalidOp"

\* normalizeOffset
normalizeOffset(selector, bound) ==
    With(Atoi(selector), LAMBDA r :
    With(IF r.n < 0 THEN bound + r.n ELSE r.n, LAMBDA res :
        IF ~r.ok THEN [err |-> ErrAtoi, index |-> -1]
        ELSE IF res >= bound \/ res < 0 THEN [err |-> ErrBounds, index |-> -1]
        ELSE [err |-> "", index |-> res]))

\* Pointer.Get
RECURSIVE Get(_, _, _)
Get(h, p, from) ==
    IF Len(p) = 0 THEN [err |-> "", v |-> from]
    ELSE IF IsMap(from) THEN
        IF Head(p) \notin DOMAIN h.maps[from.m] THEN [err |-> ErrNotFound, v |-> Nil]
        ELSE Get(h, Tail(p), h.maps[from.m][Head(p)])
    ELSE IF IsSlice(from) THEN
        With(normalizeOffset(Head(p), from.len), LAMBDA n :
            IF n.err # "" THEN [err |-> n.err, v |-> Nil]
            ELSE Get(h, Tail(p), h.arrs[from.a][n.index + 1]))
    ELSE [err |-> ErrNotIndexable, v |-> Nil]

\* Pointer.toContainer
toContainer(h, p, to) ==
    IF Len(p) = 0 THEN [selector |-> "", operatrix |-> Nil, err |-> ErrCannotHappen]
    ELSE With(Get(h, ChopRest(p), to), LAMBDA g :
              [selector |-> ChopLast(p), operatrix |-> g.v, err |-> g.err])

(***************************************************************************)
(* The mutation primitives.  Each returns the heap it leaves, the root it  *)
(* returns and its error.                                                  *)
(***************************************************************************)
Ret(h, v, e) == [h |-> h, v |-> v, err |-> e]

SetMember(h, id, k, val) == [h EXCEPT !.maps[id] = (k :> val) @@ @]
DelMember(h, id, k) ==
    [h EXCEPT !.maps[id] = [j \in (DOMAIN @) \ {k} |-> @[j]]]
SetSlot(h, a, i, val) == [h EXCEPT !.arrs[a][i] = val]

\* Pointer.Replace
Replace(h, p, to, val) ==
    IF Len(p) = 0 THEN Ret(h, val, "")
    ELSE With(toContainer(h, p, to), LAMBDA c :
         With(c.operatrix, LAMBDA t :
            IF c.err # "" THEN Ret(h, to, c.err)
            ELSE IF IsMap(t) THEN
                IF c.selector \in DOMAIN h.maps[t.m]
                THEN Ret(SetMember(h, t.m, c.selector, val), to, "")
                ELSE Ret(h, to, ErrNotFound)
            ELSE IF IsSlice(t) THEN
                With(normalizeOffset(c.selector, t.len), LAMBDA n :
                    IF n.err # "" THEN Ret(h, to, n.err)
                    ELSE Ret(SetSlot(h, t.a, n.index + 1, val), to, ""))
            ELSE Ret(h, to, ErrNotIndexable)))

\* Pointer.handleChangedSlice: store the new slice header s where the old
\* one was, in the parent container or as the root
handleChangedSlice(h, p, to, s) ==
    IF Len(p) > 1 THEN Replace(h, ChopRest(p), to, s)
    ELSE Ret(h, s, "")

\* append(t, val): in place when the backing array has room, else into a
\* new backing array of grown capacity
GoAppend(h, t, val) ==
    IF t.len < Len(h.arrs[t.a])
    THEN [h |-> SetSlot(h, t.a, t.len + 1, val), v |-> [a |-> t.a, len |-> t.len + 1]]
    ELSE NewSlice(h, Append(Elems(h, t), val), GrowCap(Len(h.arrs[t.a])))

\* Pointer.Put
\* res := make([]interface{}, len(t)+1) with val at index and the elements
\* of t around it
Inserted(h, t, index, val) ==
    NewSlice(h, SubSeq(Elems(h, t), 1, index) \o <<val>>
                \o SubSeq(Elems(h, t), index + 1, t.len), t.len + 1)

Put(h, p, to, val) ==
    With(toContainer(h, p, to), LAMBDA c :
    With(c.operatrix, LAMBDA t :
        IF c.err # "" THEN Ret(h, to, c.err)
        ELSE IF IsMap(t) THEN Ret(SetMember(h, t.m, c.selector, val), to, "")
        ELSE IF IsSlice(t) THEN
            IF c.selector = "-" THEN
                With(GoAppend(h, t, val), LAMBDA r :
                    handleChangedSlice(r.h, p, to, r.v))
            ELSE
                With(normalizeOffset(c.selector, t.len), LAMBDA n :
                    IF n.err # "" THEN Ret(h, to, n.err)
                    ELSE With(Inserted(h, t, n.index, val), LAMBDA r :
                             handleChangedSlice(r.h, p, to, r.v)))
        ELSE Ret(h, to, ErrNotIndexable)))

\* Pointer.Remove
\* copy(t[index:], t[index+1:]): the elements after index move down one
\* slot inside the backing array of t; its last slot keeps what it held
Shifted(h, t, index) ==
    [h EXCEPT !.arrs[t.a] =
        SubSeq(@, 1, index) \o SubSeq(@, index + 2, t.len) \o SubSeq(@, t.len, Len(@))]

Remove(h, p, from) ==
    With(toContainer(h, p, from), LAMBDA c :
    With(c.operatrix, LAMBDA t :
        IF c.err # "" THEN Ret(h, from, c.err)
        ELSE IF IsMap(t) THEN
            IF c.selector \notin DOMAIN h.maps[t.m] THEN Ret(h, from, ErrNotFound)
            ELSE Ret(DelMember(h, t.m, c.selector), from, "")
        ELSE IF IsSlice(t) THEN
            With(normalizeOffset(c.selector, t.len), LAMBDA n :
                IF n.err # "" THEN Ret(h, from, n.err)
                ELSE handleChangedSlice(Shifted(h, t, n.index), p, from,
                                        [a |-> t.a, len |-> t.len - 1]))
        ELSE Ret(h, from, ErrNotIndexable)))

\* the source value itself, not a copy of it
CopyValueShared(h, val) == [h |-> h, v |-> val]

\* the value Pointer.Copy hands to Put
CopyValue(h, val) == Clone(h, val)

\* Pointer.Copy
Copy(h, p, from, at) ==
    With(Get(h, p, from), LAMBDA g :
        IF g.err # "" THEN Ret(h, from, g.err)
        ELSE With(CopyValue(h, g.v), LAMBDA c : Put(c.h, at, from, c.v)))

\* Pointer.Move
Move(h, p, from, at) ==
    With(Get(h, p, from), LAMBDA g :
        IF g.err # "" THEN Ret(h, from, g.err)
        ELSE With(Put(h, at, from, g.v), LAMBDA r :
                 IF r.err # "" THEN r ELSE Remove(r.h, p, r.v)))

\* Pointer.Test
Test(h, p, from, sample) ==
    With(Get(h, p, from), LAMBDA g :
        IF g.err # "" THEN g.err
        ELSE IF ~DeepEqual(h, g.v, sample) THEN ErrTest
        ELSE "")

(***************************************************************************)
(* Operations and patches.  An Operation is                                *)
(*   [Op, Path, From, Value, path, from]                                   *)
(* with path and from the parsed pointers: [segs |-> segments], or         *)
(* NoPointer for Go's nil.                                                 *)
(***************************************************************************)
NoPointer == [nil |-> TRUE]
Ptr(p) == [segs |-> p]
IsNilPtr(x) == "nil" \in DOMAIN x

\* a test that stores its sample where it looked
OpApplyTestWrites(h, o, to) ==
    CASE o.Op = "test" ->
            Ret(Replace(h, o.path.segs, to, o.Value).h, to,
                Test(h, o.path.segs, to, o.Value))
      [] o.Op = "replace" -> Replace(h, o.path.segs, to, o.Value)
      [] o.Op = "add" -> Put(h, o.path.segs, to, o.Value)
      [] o.Op = "remove" -> Remove(h, o.path.segs, to)
      [] o.Op = "move" -> Move(h, o.from.segs, to, o.path.segs)
      [] o.Op = "copy" -> Copy(h, o.from.segs, to, o.path.segs)
      [] OTHER -> Ret(h, to, ErrInvalidOp)

\* Operation.apply
OpApply(h, o, to) ==
    CASE o.Op = "test" -> Ret(h, to, Test(h, o.path.segs, to, o.Value))
      [] o.Op = "replace" -> Replace(h, o.path.segs, to, o.Value)
      [] o.Op = "add" -> Put(h, o.path.segs, to, o.Value)
      [] o.Op = "remove" -> Remove(h, o.path.segs, to)
      [] o.Op = "move" -> Move(h, o.from.segs, to, o.path.segs)
      [] o.Op = "copy" -> Copy(h, o.from.segs, to, o.path.segs)
      [] OTHER -> Ret(h, to, ErrInvalidOp)

ErrBadPointer == "BadPointer"
ErrNoPath == "Did not get valid path"
ErrNoValue == "must have a valid value"
ErrNoFrom == "must have a from"
ErrBadOp == "is not a valid JSON Patch operator"

\* A patch document entry is a function from its field names to their JSON
\* values.  A string field that is absent or null decodes to "", a value
\* that is absent or null to nil.
StrField(e, name) ==
    IF name \in DOMAIN e /\ "s" \in DOMAIN e[name] THEN e[name].s ELSE ""

\* the value field of a patch document entry, decoded
ValueField(h, e) ==
    IF "value" \in DOMAIN e THEN Unmarshal(h, e["value"]) ELSE [h |-> h, v |-> Nil]

\* Operation.UnmarshalJSON
UnmarshalJSON(h, e) ==
    With(ValueField(h, e), LAMBDA val :
    With(NewPointer(StrField(e, "path")), LAMBDA path :
    With(NewPointer(StrField(e, "from")), LAMBDA from :
    With([Op |-> StrField(e, "op"), Path |-> StrField(e, "path"),
          From |-> StrField(e, "from"), Value |-> val.v,
          path |-> Ptr(path.p), from |-> NoPointer], LAMBDA o :
        IF ~path.ok THEN [h |-> val.h, o |-> o, err |-> ErrBadPointer]
        ELSE IF o.Op \in {"copy", "move"} THEN
            IF ~from.ok THEN [h |-> val.h, o |-> o, err |-> ErrBadPointer]
            ELSE [h |-> val.h, o |-> [o EXCEPT !.from = Ptr(from.p)], err |-> ""]
        ELSE [h |-> val.h, o |-> o, err |-> ""]))))

\* json.Unmarshal(buf, &res) in NewPatch: the entries in order, stopping at
\* the first that fails
RECURSIVE UnmarshalPatch(_, _, _)
UnmarshalPatch(h, entries, acc) ==
    IF entries = <<>> THEN [h |-> h, p |-> acc, err |-> ""]
    ELSE With(UnmarshalJSON(h, Head(entries)), LAMBDA r :
              IF r.err # "" THEN [h |-> r.h, p |-> acc, err |-> r.err]
              ELSE UnmarshalPatch(r.h, Tail(entries), Append(acc, r.o)))

\* the checks NewPatch makes of one decoded operation
CheckOp(o) ==
    IF IsNilPtr(o.path) THEN ErrNoPath
    ELSE IF o.Op \in {"test", "replace", "add"} THEN
        IF IsNil(o.Value) THEN ErrNoValue ELSE ""
    ELSE IF o.Op \in {"move", "copy"} THEN
        IF IsNilPtr(o.from) THEN ErrNoFrom ELSE ""
    ELSE IF o.Op = "remove" THEN ""
    ELSE ErrBadOp

\* the first operation of p that NewPatch's checks refuse (0: none)
FirstBad(p) ==
    IF \A i \in 1..Len(p) : CheckOp(p[i]) = "" THEN 0
    ELSE CHOOSE i \in 1..Len(p) :
            CheckOp(p[i]) # "" /\ \A j \in 1..(i - 1) : CheckOp(p[j]) = ""

\* NewPatch: [h, p, isnil, err]; the patch returned is nil when decoding failed
NewPatch(h, entries) ==
    With(UnmarshalPatch(h, entries, <<>>), LAMBDA u :
        IF u.err # "" THEN [h |-> u.h, p |-> <<>>, isnil |-> TRUE, err |-> u.err]
        ELSE IF FirstBad(u.p) # 0
             THEN [h |-> u.h, p |-> u.p, isnil |-> FALSE,
                   err |-> CheckOp(u.p[FirstBad(u.p)])]
        ELSE [h |-> u.h, p |-> u.p, isnil |-> FALSE, err |-> ""])

(***************************************************************************)
(* The generator.  A Pointer is a Go slice of segments, and Pointer.Append *)
(* is Go's append: pointers built by appending to the same pointer share   *)
(* its backing array when it has room.  The generator state g is           *)
(*   [h |-> heap, ph |-> the backing arrays of pointers, ops |-> the patch *)
(*    so far],                                                             *)
(* and a pointer is [a |-> backing array, len |-> length]; a |-> 0 is the  *)
(* empty array of make(Pointer, 0).  A pointer also records keys, the map  *)
(* keys it was extended with, which the program does not keep: the         *)
(* properties use it to name the member a pointer was built for.           *)
(***************************************************************************)
EmptyPointer == [a |-> 0, len |-> 0, keys |-> <<>>]
PCap(ph, p) == IF p.a = 0 THEN 0 ELSE Len(ph[p.a])
PSegs(ph, p) == IF p.len = 0 THEN <<>> ELSE SubSeq(ph[p.a], 1, p.len)

\* n empty segments: the unused part of a grown pointer
RECURSIVE Blanks(_)
Blanks(n) == IF n <= 0 THEN <<>> ELSE <<"">> \o Blanks(n - 1)

\* the segment Pointer.Append stores for the key frag
AppendSegment(frag) == decode(frag)

\* Pointer.Append: [ph, p]
PointerAppend(ph, p, frag) ==
    IF p.len < PCap(ph, p)
    THEN [ph |-> [ph EXCEPT ![p.a][p.len + 1] = AppendSegment(frag)],
          p |-> [a |-> p.a, len |-> p.len + 1, keys |-> Append(p.keys, frag)]]
    ELSE [ph |-> Append(ph, PSegs(ph, p) \o <<AppendSegment(frag)>>
                            \o Blanks(GrowCap(PCap(ph, p)) - p.len - 1)),
          p |-> [a |-> Len(ph) + 1, len |-> p.len + 1, keys |-> Append(p.keys, frag)]]

\* reflect.TypeOf of a decoded JSON value
TypeOf(v) ==
    IF IsMap(v) THEN "map" ELSE IF IsSlice(v) THEN "slice"
    ELSE IF "n" \in DOMAIN v THEN "float64" ELSE IF "s" \in DOMAIN v THEN "string"
    ELSE IF "b" \in DOMAIN v THEN "bool" ELSE "nil"

\* res = append(res, Operation{op, pstr, "", val, ptr, nil})
Emit(g, op, ptr, val) ==
    [g EXCEPT !.ops = Append(@, [Op |-> op, Path |-> PointerString(PSegs(g.ph, ptr)),
                                 From |-> "", Value |-> val,
                                 path |-> ptr, from |-> NoPointer])]

\* the same with utils.Clone(v) as the value
EmitClone(g, op, ptr, v) ==
    With(Clone(g.h, v), LAMBDA c : Emit([g EXCEPT !.h = c.h], op, ptr, c.v))

\* op with a clone of v and never a test before it
GuardedNever(g, paranoid, old, op, ptr, v) == EmitClone(g, op, ptr, v)

\* a test of the old value, when paranoid, then op with a clone of v
Guarded(g, paranoid, old, op, ptr, v) ==
    EmitClone(IF paranoid THEN EmitClone(g, "test", ptr, old) ELSE g, op, ptr, v)

\* the pretest block left out: nothing is emitted for pretest
PretestedNever(g, pretest, ptr, baseVal) == g

\* the pretest block: a test of the whole base value at ptr, when pretest
Pretested(g, pretest, ptr, baseVal) ==
    IF pretest THEN EmitClone(g, "test", ptr, baseVal) ELSE g

\* the flag basicGen goes on with once it has handled pretest
ParanoidAfterPretest(paranoid, pretest) == IF pretest THEN FALSE ELSE paranoid

\* the keys of map m in the order ord, the order this run of the program
\* ranges over maps in
Range(h, m, ord) == SelectSeq(ord, LAMBDA k : k \in DOMAIN h.maps[m.m])

\* basicGen.  genBody is what follows the pretest block, genRemoved the
\* first loop (over base), genAdded the second (over target).
RECURSIVE basicGen(_, _, _, _, _, _, _), genBody(_, _, _, _, _, _),
          genRemoved(_, _, _, _, _, _, _), genAdded(_, _, _, _, _)
basicGen(g, baseVal, targetVal, paranoid, pretest, ptr, ord) ==
    genBody(Pretested(g, pretest, ptr, baseVal),
            baseVal, targetVal, ParanoidAfterPretest(paranoid, pretest), ptr, ord)
genBody(g, baseVal, targetVal, paranoid, ptr, ord) ==
    IF TypeOf(baseVal) # TypeOf(targetVal)
    THEN Guarded(g, paranoid, baseVal, "replace", ptr, targetVal)
    ELSE IF IsMap(baseVal)
    THEN genAdded(genRemoved(g, baseVal, targetVal, paranoid, ptr, Range(g.h, baseVal, ord), ord),
                  baseVal, targetVal, ptr, Range(g.h, targetVal, ord))
    ELSE IF ~DeepEqual(g.h, baseVal, targetVal)
    THEN Guarded(g, paranoid, baseVal, "replace", ptr, targetVal)
    ELSE g
genRemoved(g, baseVal, targetVal, paranoid, ptr, keys, ord) ==
    IF keys = <<>> THEN g
    ELSE With(PointerAppend(g.ph, ptr, Head(keys)), LAMBDA n :
         With([g EXCEPT !.ph = n.ph], LAMBDA g1 :
            genRemoved(
                IF Head(keys) \notin DOMAIN g.h.maps[targetVal.m]
                THEN Emit(IF paranoid
                          THEN EmitClone(g1, "test", n.p, g.h.maps[baseVal.m][Head(keys)])
                          ELSE g1, "remove", n.p, Nil)
                ELSE basicGen(g1, g.h.maps[baseVal.m][Head(keys)],
                              g.h.maps[targetVal.m][Head(keys)], paranoid, FALSE, n.p, ord),
                baseVal, targetVal, paranoid, ptr, Tail(keys), ord)))
genAdded(g, baseVal, targetVal, ptr, keys) ==
    IF keys = <<>> THEN g
    ELSE IF Head(keys) \in DOMAIN g.h.maps[baseVal.m]
    THEN genAdded(g, baseVal, targetVal, ptr, Tail(keys))
    ELSE With(PointerAppend(g.ph, ptr, Head(keys)), LAMBDA n :
            genAdded(EmitClone([g EXCEPT !.ph = n.ph], "add", n.p,
                               g.h.maps[targetVal.m][Head(keys)]),
                     baseVal, targetVal, ptr, Tail(keys)))

\* the operations of g as Patch.apply reads them: each path is what its
\* slice holds once the generator has returned
Generated(g) ==
    [i \in 1..Len(g.ops) |->
        [keys |-> g.ops[i].path.keys]
        @@ [g.ops[i] EXCEPT !.path = Ptr(PSegs(g.ph, g.ops[i].path))]]

\* GenerateFull: both texts decoded, then basicGen from the empty pointer
GenerateFull(h, baseDoc, targetDoc, paranoid, pretest, ord) ==
    With(Unmarshal(h, baseDoc), LAMBDA b :
    With(Unmarshal(b.h, targetDoc), LAMBDA t :
        basicGen([h |-> t.h, ph |-> <<>>, ops |-> <<>>], b.v, t.v,
                 paranoid, pretest, EmptyPointer, ord)))

(***************************************************************************)
(* The inputs: documents and patch documents.                              *)
(***************************************************************************)
EOp(op, path) == ("op" :> Str(op)) @@ ("path" :> Str(path))
EVal(op, path, v) == EOp(op, path) @@ ("value" :> v)
EFrom(op, from, path) == EOp(op, path) @@ ("from" :> Str(from))

X1 == Obj("x" :> Num(1))
K1 == Obj("k" :> Num(1))

\* documents made of objects
ObjDocs ==
    { Obj(("a" :> X1) @@ ("b" :> Num(2))),
      Obj(("a" :> Obj("x" :> K1)) @@ ("c" :> Str("s"))) }

ObjOps ==
    { EFrom("copy", "/a", "/c"), EFrom("copy", "/a", "/a/y"),
      EFrom("copy", "/a/x", "/a"), EFrom("copy", "", "/c"),
      EVal("replace", "/c/x", Num(7)), EVal("replace", "/a/x", Num(7)),
      EVal("replace", "/zz", Num(7)), EVal("replace", "", Num(7)),
      EVal("add", "/c/y", Num(7)), EVal("add", "/c", K1),
      EVal("add", "/a/x/k", Arr(<<Num(8)>>)),
      EOp("remove", "/c/x"), EOp("remove", "/a/x"),
      EFrom("move", "/a", "/c"), EFrom("move", "/a", "/a"),
      EFrom("move", "/a", "/a/x"),
      EFrom("move", "/a/x", "/a"), EFrom("move", "", "/c"),
      EVal("test", "/a", X1), EVal("test", "/b", Num(3)) }

\* a document with an array member, and the operations tried on it
ArrDocs == { Obj("a" :> Arr(<<X1, Num(2), Num(3)>>)) }

ArrOps ==
    { EVal("add", "/a/-", Num(9)), EVal("add", "/a/3", Num(9)),
      EVal("add", "/a/0", K1), EVal("add", "/a/-1", Num(9)),
      EOp("remove", "/a/0"), EOp("remove", "/a/-1"), EOp("remove", "/a/5"),
      EFrom("move", "/a/0", "/a/2"), EFrom("move", "/a/2", "/a/0"),
      EFrom("move", "/a/1", "/a/1"),
      EFrom("copy", "/a/0", "/a/-"), EFrom("copy", "/a/0", "/a/0"),
      EFrom("copy", "/a", "/b"), EFrom("copy", "/a/0", "/a/1"),
      EFrom("copy", "/a/0", "/a/-1"),
      EVal("replace", "/a/0/x", Num(7)), EVal("replace", "/b/0/x", Num(7)),
      EVal("replace", "/a/3/x", Num(7)), EVal("replace", "/a/1/x", Num(7)),
      EVal("test", "/a/-1", Num(3)) }

\* a document that is an array, and the operations tried on it
RootDocs == { Arr(<<Str("bar"), Num(5)>>) }

RootOps ==
    { EVal("add", "/-", Num(9)), EVal("add", "/2", Num(9)),
      EVal("add", "/0", Arr(<<Num(8)>>)),
      EOp("remove", "/0"), EFrom("move", "/0", "/1"),
      EVal("replace", "/1", Num(7)),
      EVal("test", "/-2", Str("bar")), EVal("test", "/2", Num(5)),
      EVal("test", "/0/0", Num(8)) }

\* a document with an array inside an array, and the operations tried on it
NestDocs == { Obj("a" :> Arr(<<Num(1), Arr(<<Num(2), Num(3)>>)>>)) }

NestOps ==
    { EVal("add", "/a/1/0", Num(9)), EVal("add", "/a/1/-", Num(9)),
      EVal("add", "/a/1/2", Num(9)), EVal("add", "/a/-1/1", K1),
      EVal("add", "/a/0", Arr(<<Num(8)>>)), EVal("add", "/a/0/0", Num(9)),
      EOp("remove", "/a/1/0"), EOp("remove", "/a/1/-1"),
      EOp("remove", "/a/0/0"), EOp("remove", "/a/0"),
      EFrom("move", "/a/1", "/a/0") }

\* the sequences of at most n elements of S
RECURSIVE SeqsUpTo(_, _)
SeqsUpTo(S, n) ==
    IF n = 0 THEN {<<>>}
    ELSE SeqsUpTo(S, n - 1) \cup {Append(q, x) : q \in SeqsUpTo(S, n - 1), x \in S}

Inputs(docs, ops) ==
    {[base |-> d, patch |-> q] : d \in docs, q \in SeqsUpTo(ops, MaxPatchLen)}

ApplyInputs ==
    Inputs(ObjDocs, ObjOps) \cup Inputs(ArrDocs, ArrOps) \cup Inputs(RootDocs, RootOps)
        \cup Inputs(NestDocs, NestOps)

(***************************************************************************)
(* The program: NewPatch, then Patch.Apply, one loop iteration of          *)
(* Patch.apply per step.                                                   *)
(***************************************************************************)
NoBytes == [nobytes |-> TRUE]
NoRet == [none |-> TRUE]
NoHist == [ran |-> <<>>, prevHeap |-> EmptyHeap, prevRoot |-> Nil]

Quiet ==
    /\ heap = EmptyHeap /\ base = Nil /\ patch = <<>> /\ result = Nil
    /\ err = "" /\ loc = 0 /\ idx = 0 /\ ret = NoRet /\ hist = NoHist

Init == /\ input \in ApplyInputs
        /\ pc = "new"
        /\ Quiet

\* patch, err := NewPatch(buf)
Parse ==
    /\ pc = "new"
    /\ \E r \in {NewPatch(heap, input.patch)} :
          /\ heap' = r.h
          /\ patch' = r.p
          /\ err' = r.err
          /\ pc' = IF r.err = "" THEN "parsed" ELSE "rejected"
    /\ UNCHANGED <<base, result, loc, idx, ret, input, hist>>

\* a working copy that is the base itself
WorkingCopyShared(h, v) == [h |-> h, v |-> v]

\* result = utils.Clone(base)
WorkingCopy(h, v) == Clone(h, v)

\* Patch.Apply decodes base; Patch.apply starts from a clone of it
ApplyEnter ==
    /\ pc = "parsed"
    /\ \E b \in {Unmarshal(heap, input.base)} :
          /\ base' = b.v
          /\ \E c \in {WorkingCopy(b.h, b.v)} :
                /\ heap' = c.h
                /\ result' = c.v
    /\ idx' = 0
    /\ err' = ""
    /\ pc' = "loop"
    /\ UNCHANGED <<patch, loc, ret, input, hist>>

\* one iteration of the loop of Patch.apply
ApplyOp ==
    /\ pc = "loop" /\ err = "" /\ idx < Len(patch)
    /\ \E r \in {OpApply(heap, patch[idx + 1], result)} :
          /\ heap' = r.h
          /\ result' = r.v
          /\ err' = r.err
          /\ idx' = IF r.err = "" THEN idx + 1 ELSE idx
          /\ hist' = [ran |-> Append(hist.ran, [i |-> idx, err |-> r.err]),
                      prevHeap |-> heap, prevRoot |-> result]
    /\ UNCHANGED <<base, patch, loc, pc, ret, input>>

\* an index one past the operation that failed
ReturnLocNext(e, i) == IF e # "" THEN i + 1 ELSE 0

\* the index Patch.apply returns
ReturnLoc(e, i) == IF e # "" THEN i ELSE 0

\* the document Patch.Apply returns: none with an error, else the encoding
\* of the result
ReturnBytes(e, h, v) == IF e # "" THEN NoBytes ELSE Doc(h, v)

\* Patch.apply returns (at the first error, or after the last operation)
\* and Patch.Apply passes the outcome on
ApplyReturn ==
    /\ pc = "loop" /\ (err # "" \/ idx = Len(patch))
    /\ loc' = ReturnLoc(err, idx)
    /\ ret' = [result |-> ReturnBytes(err, heap, result), err |-> err,
               loc |-> ReturnLoc(err, idx)]
    /\ pc' = "done"
    /\ UNCHANGED <<heap, base, patch, result, err, idx, input, hist>>

Next == Parse \/ ApplyEnter \/ ApplyOp \/ ApplyReturn

Spec == Init /\ [][Next]_vars

(***************************************************************************)
(* Generate, then apply the generated patch (runTest).                     *)
(***************************************************************************)
RECURSIVE AllKeys(_)
AllKeys(t) ==
    IF IsObj(t) THEN DOMAIN t.o \cup UNION {AllKeys(t.o[k]) : k \in DOMAIN t.o}
    ELSE IF IsArr(t) THEN UNION {AllKeys(t.e[i]) : i \in DOMAIN t.e}
    ELSE {}

\* the orders a set can be ranged over
Perms(S) ==
    {q \in [1..Cardinality(S) -> S] : \A i, j \in DOMAIN q : q[i] = q[j] => i = j}

Foo(v) == Obj("foo" :> v)
Nest(v) == Obj("a" :> Obj("a" :> Obj("a" :> v)))
XY(x, y) == Obj(("x" :> Num(x)) @@ ("y" :> Num(y)))

PlainDocs ==
    { Foo(Obj(("bar" :> Num(5)) @@ ("baz" :> Num(6)))), Foo(Obj("bar" :> Num(5))),
      Foo(Num(5)), Foo(Str("bar")), Foo(Arr(<<Str("bar"), Num(5)>>)),
      Obj(("foo" :> Num(5)) @@ ("bar" :> Nil)),
      Num(5), Nil, Bool(TRUE), Arr(<<Str("bar"), Num(5)>>), EmptyObj }

\* keys that pointer syntax escapes
EscapedDocs ==
    { Obj("~1" :> Num(1)), Obj(("~1" :> Num(2)) @@ ("/" :> Num(3))),
      Obj("a/b" :> Num(1)), Obj("a/b" :> XY(1, 2)),
      Obj("m~n" :> Num(1)), Obj("m~n" :> Obj("~0" :> Num(2))),
      Obj("~0" :> Num(1)) }

\* objects below objects
DeepDocs ==
    { Nest(XY(1, 2)), Nest(XY(3, 4)), Nest(XY(1, 4)), Nest(Obj("x" :> Num(1))),
      Obj("a" :> Obj("a" :> XY(1, 2))), Obj("a" :> Obj("a" :> XY(3, 4))) }

GenPairs ==
    (PlainDocs \X PlainDocs) \cup (EscapedDocs \X EscapedDocs)
        \cup (DeepDocs \X DeepDocs)

GenInputs ==
    UNION {{[base |-> bt[1], target |-> bt[2], paranoid |-> pa, pretest |-> pr,
             ord |-> q] :
                pa \in BOOLEAN, pr \in BOOLEAN,
                q \in Perms(AllKeys(bt[1]) \cup AllKeys(bt[2]))} : bt \in GenPairs}

InitGen == /\ input \in GenInputs
           /\ pc = "gen"
           /\ Quiet

\* testPatch, err = GenerateFull(src, final, paranoid, pretest)
Generate ==
    /\ pc = "gen"
    /\ \E g \in {GenerateFull(heap, input.base, input.target, input.paranoid,
                              input.pretest, input.ord)} :
          /\ heap' = g.h
          /\ patch' = Generated(g)
    /\ pc' = "parsed"
    /\ UNCHANGED <<base, result, err, loc, idx, ret, input, hist>>

NextGen == Generate \/ ApplyEnter \/ ApplyOp \/ ApplyReturn

SpecGen == InitGen /\ [][NextGen]_vars

(***************************************************************************)
(* NewPatch alone, on patch documents whose entries lack fields.           *)
(***************************************************************************)
OpNames == {"add", "remove", "replace", "move", "copy", "test", "merge"}
PathTexts == {"", "/a", "/a/0", "a", "/~2"}
FromFields == {<<>>, "from" :> Str(""), "from" :> Str("/b"), "from" :> Str("b"),
               "from" :> Nil}
ValueFields == {<<>>, "value" :> Nil, "value" :> Bool(FALSE), "value" :> Num(0),
                "value" :> Str(""), "value" :> Arr(<<>>), "value" :> EmptyObj,
                "value" :> X1}

Entries ==
    {EOp(op, path) @@ f @@ v :
        op \in OpNames, path \in PathTexts, f \in FromFields, v \in ValueFields}
    \cup {f @@ v : f \in FromFields, v \in ValueFields}

NewInputs == {[patch |-> q] : q \in SeqsUpTo(Entries, 1)}
                \cup {[patch |-> <<EVal("add", "/a", Num(1)), e>>] : e \in Entries}

InitNew == /\ input \in NewInputs
           /\ pc = "new"
           /\ Quiet

NextNew == Parse

SpecNew == InitNew /\ [][NextNew]_vars

(***************************************************************************)
(* Pointer.Get alone, on arrays.                                           *)
(***************************************************************************)
\* the longest array resolved against
MaxArrayLen == 3

Elements == {Str("bar"), Num(5), X1}
IndexTokens == {"0", "1", "2", "3", "-1", "-2", "-3", "-4", "-", "", "x", "+1", "01"}

GetInputs ==
    {[doc |-> d, token |-> tk] :
        d \in UNION {{Arr(q), Foo(Arr(q))} : q \in UNION {[1..n -> Elements] : n \in 0..MaxArrayLen}},
        tk \in IndexTokens}

InitGet == /\ input \in GetInputs
           /\ pc = "get"
           /\ Quiet

\* the pointer text that names element token of the array of doc
ArrayPath(doc, token) == IF IsArr(doc) THEN "/" \o token ELSE "/foo/" \o token

\* p, _ := NewPointer(text); val, err := p.Get(doc)
Resolve ==
    /\ pc = "get"
    /\ \E b \in {Unmarshal(heap, input.doc)} :
          /\ heap' = b.h
          /\ base' = b.v
          /\ \E g \in {Get(b.h, NewPointer(ArrayPath(input.doc, input.token)).p, b.v)} :
                /\ err' = g.err
                /\ result' = g.v
    /\ pc' = "got"
    /\ UNCHANGED <<patch, loc, idx, ret, input, hist>>

NextGet == Resolve

SpecGet == InitGet /\ [][NextGet]_vars

(***************************************************************************)
(* NewPointer and Pointer.String alone, on pointer texts.                  *)
(***************************************************************************)
\* the longest pointer text parsed
MaxTextLen == 4

TextChars == {"/", "~", "0", "1", "a"}

\* the texts of at most n characters
RECURSIVE Texts(_)
Texts(n) ==
    IF n = 0 THEN {""}
    ELSE Texts(n - 1) \cup {s \o c : s \in Texts(n - 1), c \in TextChars}

InitPtr == /\ input \in {[text |-> s] : s \in Texts(MaxTextLen)}
           /\ pc = "text"
           /\ Quiet

\* p, err := NewPointer(text); p.String()
ParsePointer ==
    /\ pc = "text"
    /\ \E r \in {NewPointer(input.text)} :
          /\ err' = IF r.ok THEN "" ELSE ErrBadPointer
          /\ ret' = IF r.ok THEN [p |-> r.p, text |-> PointerString(r.p)] ELSE NoRet
    /\ pc' = "pointer"
    /\ UNCHANGED <<heap, base, patch, result, loc, idx, input, hist>>

NextPtr == ParsePointer

SpecPtr == InitPtr /\ [][NextPtr]_vars

(***************************************************************************)
(* Properties.                                                             *)
(***************************************************************************)
\* the last iteration of the loop that ran, and its operation
LastRan == hist.ran[Len(hist.ran)]
LastOp == patch[LastRan.i + 1]

\* the working document Patch.apply starts from, and what the first k
\* operations of the patch make of it, stopping at the first error
Entered ==
    LET n == NewPatch(EmptyHeap, input.patch)
        b == Unmarshal(n.h, input.base)
    IN  WorkingCopy(b.h, b.v)

RECURSIVE Run(_, _, _, _)
Run(h, v, ops, k) ==
    IF k = 0 THEN Ret(h, v, "")
    ELSE LET r == Run(h, v, ops, k - 1)
         IN  IF r.err # "" THEN r ELSE OpApply(r.h, ops[k], r.v)

After(k) == Run(Entered.h, Entered.v, patch, k)

\* C1: for every pair of documents (B, T), applying the patch that
\* Generate(B, T, paranoid = false) returns (pretest = false) to B succeeds
\* and yields a document deep-equal to T.
C1_GenerateThenApply ==
    (pc = "done" /\ ~input.paranoid /\ ~input.pretest)
        => (ret.err = "" /\ ret.result = input.target)

\* C2 (as the code has it): operations run strictly in list order on the
\* working document; at the first operation that fails application stops and
\* no later operation runs; Patch.apply then holds the partial working
\* document, the zero-based index of the failing operation and its error,
\* every earlier operation having succeeded; Patch.Apply returns that index
\* and error but no document.  Without a failure the index is 0 and the
\* document is returned.
C2_StopsAtFirstFailure ==
    /\ \A i \in DOMAIN hist.ran :
          /\ hist.ran[i].i = i - 1
          /\ i < Len(hist.ran) => hist.ran[i].err = ""
    /\ pc = "done" /\ ret.err # "" =>
          /\ hist.ran # <<>>
          /\ LastRan.err = ret.err
          /\ ret.loc = LastRan.i
          /\ Doc(heap, result) = Doc(After(ret.loc + 1).h, After(ret.loc + 1).v)
          /\ ret.result = NoBytes
    /\ pc = "done" /\ ret.err = "" =>
          /\ Len(hist.ran) = Len(patch)
          /\ ret.loc = 0
          /\ ret.result = Doc(After(Len(patch)).h, After(Len(patch)).v)

\* C2 as stated: when an operation fails, Apply returns the partial working
\* document together with the index and the error.
C2_ApplyReturnsPartialDocument ==
    (pc = "done" /\ ret.err # "") => ret.result = Doc(heap, result)

\* the first operation changed the document and the second one failed
C2_FailedAtSecond ==
    /\ pc = "done" /\ ret.err # "" /\ ret.loc = 1
    /\ Len(hist.ran) = 2
    /\ Doc(heap, result) # input.base

\* C3: applying a patch never mutates the caller's base document: whether
\* the patch succeeds or fails at any index, the base deep-equals what it
\* was, and the document Patch.apply returns shares no container with it.
C3_BaseUntouched ==
    pc \in {"loop", "done"} =>
        /\ Doc(heap, base) = input.base
        /\ Containers(heap, result) \cap Containers(heap, base) = {}

\* a patch that changed the working document has been applied in full
C3_PatchedInFull ==
    /\ pc = "done" /\ ret.err = ""
    /\ Len(hist.ran) = 2
    /\ Containers(heap, base) # {}
    /\ ret.result # input.base

\* the last operation ran and succeeded
Succeeded(op) == hist.ran # <<>> /\ LastRan.err = "" /\ LastOp.Op = op

\* R lies strictly below Q; F and P lie apart
Below(Q, R) == Contains(Q, R) /\ Len(R) > Len(Q)
Apart(F, P) == ~Contains(F, P) /\ ~Contains(P, F)

\* what p resolves to in the document of root
ValueAt(h, root, p) ==
    LET g == Get(h, p, root)
    IN  IF g.err # "" THEN [unresolved |-> g.err] ELSE Doc(h, g.v)

\* the containers a heap holds
Allocated(h) ==
    {<<"m", i>> : i \in DOMAIN h.maps} \cup {<<"a", i>> : i \in DOMAIN h.arrs}

\* the operations after the k-th all succeeded and edited strictly below Q
EditsBelow(k, Q) ==
    \A j \in (k + 1)..Len(hist.ran) :
        /\ hist.ran[j].err = ""
        /\ patch[j].Op \in {"replace", "add", "remove"}
        /\ Below(Q, patch[j].path.segs)

\* the final token of P names a member or counts from the front
Forward(P) == P # <<>> /\ ChopLast(P) # "-" /\ ~Signed(ChopLast(P))

Occurs(a, x) == IF IsArr(a) THEN Cardinality({i \in DOMAIN a.e : a.e[i] = x}) ELSE 0

\* C5: whenever a move from F to P succeeds (F and P in the same array and
\* F equal to P included), P resolves in the result to the value F resolved
\* to before the move, and a move inside one array keeps every element of
\* that array.
C5_MoveRelocates ==
    (Succeeded("move") /\ Forward(LastOp.path.segs)) =>
        LET F == LastOp.from.segs
            P == LastOp.path.segs
            before == ValueAt(hist.prevHeap, hist.prevRoot, ChopRest(F))
            after == ValueAt(heap, result, ChopRest(P))
        IN  /\ ValueAt(heap, result, P) = ValueAt(hist.prevHeap, hist.prevRoot, F)
            /\ (F # <<>> /\ ChopRest(F) = ChopRest(P) /\ IsArr(before)) =>
                    /\ IsArr(after)
                    /\ \A i \in DOMAIN before.e :
                           Occurs(after, before.e[i]) = Occurs(before, before.e[i])

\* C6: add into an array of length n with final token n succeeds and gives
\* what add with final token - gives.
C6_AddAtLength ==
    (hist.ran # <<>> /\ LastOp.Op = "add" /\ LastOp.path.segs # <<>>) =>
        LET path == LastOp.path.segs
            t == Get(hist.prevHeap, ChopRest(path), hist.prevRoot)
            n == Atoi(ChopLast(path))
            end == Put(hist.prevHeap, Append(ChopRest(path), "-"), hist.prevRoot,
                       LastOp.Value)
        IN  (t.err = "" /\ IsSlice(t.v) /\ n.ok /\ n.n = t.v.len) =>
                /\ LastRan.err = ""
                /\ Doc(heap, result) = Doc(end.h, end.v)

\* the array of a document of GetInputs
ArrayOf(doc) == IF IsArr(doc) THEN doc.e ELSE doc.o["foo"].e

\* C7: against a 2-element array, Get with token 0 returns the first element
\* and with token -1 the last element, while tokens -2 and 2 both fail with
\* an index-out-of-bounds error and return no value.
C7_ArrayBounds ==
    (pc = "got" /\ Len(ArrayOf(input.doc)) = 2) =>
        CASE input.token = "0" ->
                err = "" /\ Doc(heap, result) = ArrayOf(input.doc)[1]
          [] input.token = "-1" ->
                err = "" /\ Doc(heap, result) = ArrayOf(input.doc)[2]
          [] input.token \in {"-2", "2"} -> err = ErrBounds /\ result = Nil
          [] OTHER -> TRUE

\* entry e of a patch document names one of ops
HasOp(e, ops) == "op" \in DOMAIN e /\ e["op"] \in {Str(o) : o \in ops}

\* C8: NewPatch rejects every move or copy entry that has no from field: no
\* patch holding a from-less move or copy is returned without an error.
C8_FromRequired ==
    (/\ pc \in {"parsed", "rejected"}
     /\ \E i \in DOMAIN input.patch :
           /\ HasOp(input.patch[i], {"move", "copy"})
           /\ "from" \notin DOMAIN input.patch[i]) => err # ""

\* C9: NewPatch accepts an add, replace or test entry exactly when its value
\* field is present, whatever variant the value is.
C9_ValueRequired ==
    (/\ pc \in {"parsed", "rejected"}
     /\ Len(input.patch) = 1
     /\ HasOp(input.patch[1], {"add", "replace", "test"})
     /\ NewPointer(input.patch[1]["path"].s).ok) =>
        (err = "" <=> "value" \in DOMAIN input.patch[1])

\* C10: a test operation never mutates the document: the document after it
\* deep-equals the document before it (no container was written), and the
\* same test applied again has the outcome of the first.
C10_TestIsReadOnly ==
    (hist.ran # <<>> /\ LastOp.Op = "test") =>
        /\ Doc(heap, result) = Doc(hist.prevHeap, hist.prevRoot)
        /\ heap = hist.prevHeap /\ result = hist.prevRoot
        /\ Test(heap, LastOp.path.segs, result, LastOp.Value) = LastRan.err

\* a test on a member that is an object failed after an operation changed
\* the document
C10_TestedAfterChange ==
    /\ pc = "done" /\ Len(hist.ran) = 2
    /\ LastOp.Op = "test" /\ LastRan.err = ErrTest
    /\ Containers(heap, LastOp.Value) # {}
    /\ Doc(heap, result) # input.base

\* C11: for every pointer text P that NewPointer parses without error (the
\* empty string, /, and tokens with ~0, ~1 and ~01 included),
\* String(NewPointer(P)) equals P.
C11_PointerRoundTrip ==
    (pc = "pointer" /\ err = "") => ret.text = input.text

\* a text with an escaped ~ followed by 1 has been parsed and printed
C11_ParsedEscapes ==
    /\ pc = "pointer" /\ err = ""
    /\ input.text = "/~01"
    /\ ret.p = <<"~1">>

\* the value of the tree t at the member reached through the keys ks
RECURSIVE TreeAt(_, _)
TreeAt(t, ks) == IF ks = <<>> THEN t ELSE TreeAt(t.o[Head(ks)], Tail(ks))

\* operation i of the generated patch follows a test of the same path whose
\* value is the base document's value at the member i was generated for
Guards(i) ==
    /\ i > 1
    /\ patch[i - 1].Op = "test"
    /\ patch[i - 1].Path = patch[i].Path
    /\ patch[i - 1].path = patch[i].path
    /\ Doc(heap, patch[i - 1].Value) = TreeAt(input.base, patch[i].keys)

Shown(h, o) ==
    [Op |-> o.Op, Path |-> o.Path, From |-> o.From, path |-> o.path,
     from |-> o.from, Value |-> Doc(h, o.Value)]

\* the generator run on this input with neither flag set
Unflagged ==
    GenerateFull(EmptyHeap, input.base, input.target, FALSE, FALSE, input.ord)

\* C13: GenerateFull(base, target, paranoid = false, pretest = true) is one
\* test at the empty pointer with a value deep-equal to base, followed by
\* the operations of GenerateFull(base, target, false, false); the
\* whole-document test appears once only, however deep the recursion and
\* also when base equals target.
C13_PretestPrependsOneTest ==
    (pc = "parsed" /\ input.pretest /\ ~input.paranoid) =>
        LET g == Unflagged
            plain == Generated(g)
        IN  /\ Len(patch) = Len(plain) + 1
            /\ Shown(heap, patch[1]) =
                   [Op |-> "test", Path |-> "", From |-> "", path |-> Ptr(<<>>),
                    from |-> NoPointer, Value |-> input.base]
            /\ \A i \in 1..Len(plain) :
                  Shown(heap, patch[i + 1]) = Shown(g.h, plain[i])

\* a pretest patch has been generated whose operations reach below the
\* top level of the document
C13_PretestedNested ==
    /\ pc = "parsed" /\ input.pretest /\ ~input.paranoid
    /\ Len(patch) >= 3
    /\ \E i \in 1..Len(patch) : Len(patch[i].keys) >= 2

\* C14: a failing operation has no effect on the working document: for each
\* of the six kinds, when applying the operation returns an error the
\* document it leaves deep-equals the document it was given, so the partial
\* document of a failure at index i is the result of operations 0..i-1.
C14_FailedOpLeavesDocument ==
    (hist.ran # <<>> /\ LastRan.err # "") =>
        Doc(heap, result) = Doc(hist.prevHeap, hist.prevRoot)

\* C15: applying a patch does not change the patch: the value carried by
\* each add, replace or test operation is after Patch.apply what it was
\* before, so a second application of the same patch to a deep-equal base
\* gives the same outcome.
C15_PatchUnchangedByApply ==
    pc \in {"loop", "done"} =>
        \A i \in 1..Len(patch) :
            "value" \in DOMAIN input.patch[i] =>
                Doc(heap, patch[i].Value) = input.patch[i]["value"]

\* C16: every operation the generator emits addresses the member it was
\* generated for: the tokens of its path pointer are, one by one, the raw
\* object keys on the way from the root to that member, for keys holding
\* ~, /, ~0 or ~1, at every depth, and for several changed sibling keys of
\* one object.
C16_PathTokensAreKeys ==
    pc = "parsed" =>
        \A i \in 1..Len(patch) : patch[i].path = Ptr(patch[i].keys)

\* the tree t with new in the place p resolves to
RECURSIVE TreePut(_, _, _)
TreePut(t, p, new) ==
    IF p = <<>> THEN new
    ELSE IF IsObj(t)
    THEN Obj([k \in DOMAIN t.o |->
                 IF k = Head(p) THEN TreePut(t.o[k], Tail(p), new) ELSE t.o[k]])
    ELSE Arr([j \in DOMAIN t.e |->
                 IF j = normalizeOffset(Head(p), Len(t.e)).index + 1
                 THEN TreePut(t.e[j], Tail(p), new) ELSE t.e[j]])

\* the elements old with val before index i; old without its element at i
Grown(old, i, val) ==
    Arr([j \in 1..(Len(old) + 1) |->
            IF j <= i THEN old[j] ELSE IF j = i + 1 THEN val ELSE old[j - 1]])
Shrunk(old, i) ==
    Arr([j \in 1..(Len(old) - 1) |-> IF j <= i THEN old[j] ELSE old[j + 1]])

\* the index the final token tok names in an array of n elements
Slot(tok, n) == IF tok = "-" THEN n ELSE normalizeOffset(tok, n).index

\* C17: array growth and shrink keep arrays dense and touch nothing else: a
\* successful add at index i of an array of length n, at the root or nested
\* at any depth, yields length n+1 with the value at i, the elements before
\* i unchanged and those from i on one place up; a successful remove at i
\* yields length n-1 with the elements after i one place down; the returned
\* root shows the change and every other part of the document is unchanged.
C17_ArraysStayDense ==
    (hist.ran # <<>> /\ LastRan.err = "" /\ LastOp.Op \in {"add", "remove"}
        /\ LastOp.path.segs # <<>>) =>
        LET P == LastOp.path.segs
            was == Doc(hist.prevHeap, hist.prevRoot)
            before == ValueAt(hist.prevHeap, hist.prevRoot, ChopRest(P))
        IN  IsArr(before) =>
                LET i == Slot(ChopLast(P), Len(before.e))
                IN  Doc(heap, result) =
                        TreePut(was, ChopRest(P),
                                IF LastOp.Op = "add"
                                THEN Grown(before.e, i, Doc(hist.prevHeap, LastOp.Value))
                                ELSE Shrunk(before.e, i))
====
